---------------------------- MODULE Spec2Model ----------------------------
(***************************************************************************)
(* Key recovery for the byte-wise affine cipher  C = (m.P + b) mod n,      *)
(* n = 256:                                                                *)
(*   - cryptanalysis_affine.py : extended Euclid / Bezout modular inverse  *)
(*     and the known-plaintext solver,                                     *)
(*   - brute_force_affine.py   : search over every (m^-1, b),              *)
(*   - exhaustive_key_affine.py: the same search over coprime m^-1 only.   *)
(*                                                                         *)
(* Three specifications share the variables below; each runs one of the    *)
(* programs' entry functions from its arguments to its return or to the    *)
(* exception that leaves it.                                               *)
(***************************************************************************)
EXTENDS Integers, Sequences, FiniteSets

VARIABLES
    pc,                      \* position in the running function
    outcome,                 \* what the running function returned or raised
    arg_m, arg_n,            \* m_inverse_affine: its arguments m, n
    gcd_modulo_formulas,     \* m_inverse_affine / fill_gcd_affine: the chain
    affine_bezout_identity,  \* m_inverse_affine: the running identity
    key,                     \* the key and noise the sample bytes were made with
    input_plaintext,         \* analyze_known_plaintext: known_plaintext at the call
    input_ciphertext,        \* analyze_known_plaintext: known_ciphertext at the call
    known_plaintext,         \* analyze_known_plaintext: the caller's list, now
    known_ciphertext,        \* analyze_known_plaintext: the caller's list, now
    first, second,           \* analyze_known_plaintext: the two samples popped
    ciphertext,              \* brute_force / exhaustive_key: the argument
    loop_i,                  \* brute_force / exhaustive_key: outer loop variable i
    bf_result,               \* what brute_force returned
    ek_result                \* what exhaustive_key returned

vars == <<pc, outcome, arg_m, arg_n, gcd_modulo_formulas, affine_bezout_identity,
          key, input_plaintext, input_ciphertext, known_plaintext,
          known_ciphertext, first, second, ciphertext, loop_i, bf_result,
          ek_result>>

inverse_vars == <<arg_m, arg_n, gcd_modulo_formulas, affine_bezout_identity>>
solver_vars == <<input_plaintext, input_ciphertext, known_plaintext,
                 known_ciphertext, first, second>>
search_vars == <<ciphertext, loop_i, bf_result, ek_result>>

---------------------------------------------------------------------------
(* Program constants *)

MAX_BYTES == 255

\* n = MAX_BYTES + 1, the modulus every strategy uses
Modulus == MAX_BYTES + 1

---------------------------------------------------------------------------
(* Python values: None, and the ways a call ends *)

None == [kind |-> "None"]

Pending == [kind |-> "pending"]

Return(v) == [kind |-> "return", value |-> v]

\* raise AffineException(str, code, dump)
AffineException(code, dump) == [kind |-> "AffineException", code |-> code, dump |-> dump]

\* list index out of range
IndexError == [kind |-> "IndexError"]

\* integer division or modulo by zero
ZeroDivisionError == [kind |-> "ZeroDivisionError"]

\* subscripting None
TypeError == [kind |-> "TypeError"]

\* a local read before it was assigned
UnboundLocalError == [kind |-> "UnboundLocalError"]

Returned(o) == o.kind = "return"

Raised(o) == o.kind \notin {"return", "pending", "None"}

---------------------------------------------------------------------------
(* cryptanalysis_affine.py: modulo_formula, fill_gcd_affine, m_inverse_affine *)

\* q = kp + r, the smaller argument as p.  The callers below pass a positive
\* smaller argument, or stop with ZeroDivisionError before they call.
modulo_formula(p, q) ==
    IF p > q
    THEN [p |-> q, q |-> p, k |-> p \div q, r |-> p % q]
    ELSE [p |-> p, q |-> q, k |-> q \div p, r |-> q % p]

\* gcd_affine[-1]
LastOf(s) == s[Len(s)]

\* one pass of the while loop of fill_gcd_affine
fill_gcd_append(gcd_affine) ==
    Append(gcd_affine, modulo_formula(LastOf(gcd_affine).r, LastOf(gcd_affine).p))

\* what follows the while loop of fill_gcd_affine: gcd_affine[-2] is read
fill_gcd_check(gcd_affine) ==
    IF Len(gcd_affine) < 2
    THEN IndexError
    ELSE IF gcd_affine[Len(gcd_affine) - 1].r # 1
         THEN AffineException(3, gcd_affine)
         ELSE Return(gcd_affine)

RECURSIVE fill_gcd_loop(_)
fill_gcd_loop(gcd_affine) ==
    IF LastOf(gcd_affine).r # 0
    THEN fill_gcd_loop(fill_gcd_append(gcd_affine))
    ELSE gcd_affine

fill_gcd_affine(m, n) ==
    IF n <= m
    THEN AffineException(2, None)
    ELSE IF m = 0
         THEN ZeroDivisionError
         ELSE fill_gcd_check(fill_gcd_loop(<<modulo_formula(m, n)>>))

\* backtrack_step without line 103, k *= -1
backtrack_step_no_negate(identity, gcd_modulo_formula) ==
    IF gcd_modulo_formula.r = 0
    THEN identity
    ELSE LET k == gcd_modulo_formula.k
         IN  IF identity = None
             THEN [m |-> gcd_modulo_formula.p, x |-> k,
                   n |-> gcd_modulo_formula.q, y |-> 1]
             ELSE LET y1 == identity.y + identity.x * k
                      m1 == gcd_modulo_formula.q
                  IN  [m |-> identity.n, x |-> y1, n |-> m1, y |-> identity.x]

\* one pass of the while loop of m_inverse_affine, on the formula just popped
backtrack_step(identity, gcd_modulo_formula) ==
    IF gcd_modulo_formula.r = 0
    THEN identity
    ELSE LET k == gcd_modulo_formula.k * (-1)
         IN  IF identity = None
             THEN [m |-> gcd_modulo_formula.p, x |-> k,
                   n |-> gcd_modulo_formula.q, y |-> 1]
             ELSE LET y1 == identity.y + identity.x * k
                      m1 == gcd_modulo_formula.q
                  IN  [m |-> identity.n, x |-> y1, n |-> m1, y |-> identity.x]

RECURSIVE backtrack(_, _)
backtrack(formulas, identity) ==
    IF Len(formulas) = 0
    THEN identity
    ELSE backtrack(SubSeq(formulas, 1, Len(formulas) - 1),
                   backtrack_step(identity, LastOf(formulas)))

\* the end of m_inverse_affine: a negative x is moved into [0, n)
normalize_x(identity, n) ==
    IF identity.x < 0 THEN [identity EXCEPT !.x = n + identity.x] ELSE identity

m_inverse_affine(m, n) ==
    IF n <= m
    THEN AffineException(4, None)
    ELSE LET filled == fill_gcd_affine(m, n)
         IN  IF ~Returned(filled)
             THEN filled
             ELSE LET identity == backtrack(filled.value, None)
                  IN  IF identity = None
                      THEN TypeError
                      ELSE Return(normalize_x(identity, n).x)

---------------------------------------------------------------------------
(* m_inverse_affine(arg_m, arg_n), statement by statement *)

\* the moduli the programs call m_inverse_affine with: n and n // g
Moduli == {d \in 2..Modulus : Modulus % d = 0}

IdleInverse ==
    /\ arg_m = 0
    /\ arg_n = 0
    /\ gcd_modulo_formulas = <<>>
    /\ affine_bezout_identity = None

IdleSolver ==
    /\ input_plaintext = <<>>
    /\ input_ciphertext = <<>>
    /\ known_plaintext = <<>>
    /\ known_ciphertext = <<>>
    /\ first = None
    /\ second = None

IdleSearch ==
    /\ ciphertext = <<>>
    /\ loop_i = 0
    /\ bf_result = Pending
    /\ ek_result = Pending

InitInverse ==
    /\ pc = "inverse_entry"
    /\ outcome = Pending
    /\ arg_n \in Moduli
    /\ arg_m \in 0..arg_n
    /\ gcd_modulo_formulas = <<>>
    /\ affine_bezout_identity = None
    /\ key = None
    /\ IdleSolver
    /\ IdleSearch

\* lines 80-81
InverseEntry ==
    /\ pc = "inverse_entry"
    /\ IF arg_n <= arg_m
       THEN /\ outcome' = AffineException(4, None)
            /\ pc' = "raised"
       ELSE /\ outcome' = outcome
            /\ pc' = "fill_entry"
    /\ UNCHANGED <<inverse_vars, key, solver_vars, search_vars>>

\* fill_gcd_affine, lines 36-41
FillEntry ==
    /\ pc = "fill_entry"
    /\ IF arg_n <= arg_m
       THEN /\ outcome' = AffineException(2, None)
            /\ pc' = "raised"
            /\ UNCHANGED gcd_modulo_formulas
       ELSE IF arg_m = 0
            THEN /\ outcome' = ZeroDivisionError
                 /\ pc' = "raised"
                 /\ UNCHANGED gcd_modulo_formulas
            ELSE /\ gcd_modulo_formulas' = <<modulo_formula(arg_m, arg_n)>>
                 /\ pc' = "fill_loop"
                 /\ UNCHANGED outcome
    /\ UNCHANGED <<arg_m, arg_n, affine_bezout_identity, key, solver_vars, search_vars>>

\* fill_gcd_affine, lines 44-47
FillLoop ==
    /\ pc = "fill_loop"
    /\ LastOf(gcd_modulo_formulas).r # 0
    /\ gcd_modulo_formulas' = fill_gcd_append(gcd_modulo_formulas)
    /\ UNCHANGED <<pc, outcome, arg_m, arg_n, affine_bezout_identity, key,
                   solver_vars, search_vars>>

\* fill_gcd_affine, lines 53-56
FillCheck ==
    /\ pc = "fill_loop"
    /\ LastOf(gcd_modulo_formulas).r = 0
    /\ LET checked == fill_gcd_check(gcd_modulo_formulas)
       IN  IF Returned(checked)
           THEN /\ pc' = "backtrack"
                /\ UNCHANGED outcome
           ELSE /\ pc' = "raised"
                /\ outcome' = checked
    /\ UNCHANGED <<inverse_vars, key, solver_vars, search_vars>>

\* lines 93-142: pop the last formula and fold it into the identity
Backtrack ==
    /\ pc = "backtrack"
    /\ Len(gcd_modulo_formulas) > 0
    /\ gcd_modulo_formulas' =
           SubSeq(gcd_modulo_formulas, 1, Len(gcd_modulo_formulas) - 1)
    /\ affine_bezout_identity' =
           backtrack_step(affine_bezout_identity, LastOf(gcd_modulo_formulas))
    /\ UNCHANGED <<pc, outcome, arg_m, arg_n, key, solver_vars, search_vars>>

\* lines 150-154
InverseReturn ==
    /\ pc = "backtrack"
    /\ Len(gcd_modulo_formulas) = 0
    /\ IF affine_bezout_identity = None
       THEN /\ outcome' = TypeError
            /\ pc' = "raised"
            /\ UNCHANGED affine_bezout_identity
       ELSE /\ affine_bezout_identity' = normalize_x(affine_bezout_identity, arg_n)
            /\ outcome' = Return(affine_bezout_identity'.x)
            /\ pc' = "returned"
    /\ UNCHANGED <<arg_m, arg_n, gcd_modulo_formulas, key, solver_vars, search_vars>>

NextInverse ==
    \/ InverseEntry
    \/ FillEntry
    \/ FillLoop
    \/ FillCheck
    \/ Backtrack
    \/ InverseReturn

SpecInverse == InitInverse /\ [][NextInverse]_vars

---------------------------------------------------------------------------
(* cryptanalysis_affine.py: analyze_known_plaintext *)

\* the cipher the samples come from: c = m.p + b (mod n)
encrypt_affine(m, b, P) == (m * P + b) % Modulus

\* list.pop() with the index left out: the last element goes
list_pop_last(list, index) == SubSeq(list, 1, Len(list) - 1)

\* list.pop(index): the list that is left (index counted from 1 here)
list_pop(list, index) ==
    SubSeq(list, 1, index - 1) \o SubSeq(list, index + 1, Len(list))

\* line 186: the sample with the larger plaintext byte comes first
order_first(s1, s2) == IF s1.p < s2.p THEN s2 ELSE s1

order_second(s1, s2) == IF s1.p < s2.p THEN s1 ELSE s2

\* the except branch of lines 220-234, entered with the exception ae
solve_m_except(p, c, n, ae) ==
    IF ae.code = 3
    THEN LET g == LastOf(ae.dump).p
         IN  IF c % g = 0
             THEN LET p_inverse == m_inverse_affine(p \div g, n \div g)
                  IN  IF Returned(p_inverse)
                      THEN Return(((c \div g) * p_inverse.value) % (n \div g))
                      ELSE p_inverse
             ELSE AffineException(7, None)
    ELSE UnboundLocalError

\* lines 214-234: solve c = m.p (mod n) for m
solve_m(p, c, n) ==
    LET p_inverse == m_inverse_affine(p, n)
    IN  IF Returned(p_inverse)
        THEN Return((c * p_inverse.value) % n)
        ELSE IF p_inverse.kind = "AffineException"
             THEN solve_m_except(p, c, n, p_inverse)
             ELSE p_inverse

\* lines 185-243, on the two samples popped
solve_samples(s1, s2) ==
    LET first_s == order_first(s1, s2)
        second_s == order_second(s1, s2)
        p == first_s.p - second_s.p
        c == first_s.c - second_s.c
        n == MAX_BYTES + 1
        m == solve_m(p, c, n)
    IN  IF ~Returned(m)
        THEN m
        ELSE LET b == (first_s.c - first_s.p * m.value) % n
                 m_inverse == m_inverse_affine(m.value, MAX_BYTES + 1)
             IN  IF Returned(m_inverse)
                 THEN Return([m |-> m.value, m_inverse |-> m_inverse.value, b |-> b])
                 ELSE m_inverse

---------------------------------------------------------------------------
(* The sample inputs *)

\* longest known-plaintext list
MaxSamples == 3

\* largest error added to the first ciphertext byte (0: a consistent sample)
MaxNoise == 2

\* true multipliers m (coprime with n) and offsets b
KeyMs == {1, 3, 131, 255}

KeyBs == {0, 7, 255}

\* plaintext bytes: differences 0, 1, 2, 3, 4, 5, 6, 122, 123, 126, 128
PlainBytes == {0, 2, 5, 6, 128}

Keys == [m : KeyMs, b : KeyBs, noise : 0..MaxNoise]

SeqsUpTo(S, len) == UNION {[1..l -> S] : l \in 0..len}

\* the ciphertext of plain under k, the noise added to its first byte
encrypt_bytes(k, plain) ==
    [i \in 1..Len(plain) |->
        (encrypt_affine(k.m, k.b, plain[i]) + (IF i = 1 THEN k.noise ELSE 0)) % Modulus]

InitSolver ==
    /\ pc = "solver_entry"
    /\ outcome = Pending
    /\ key \in Keys
    /\ input_plaintext \in SeqsUpTo(PlainBytes, MaxSamples)
    /\ \E len \in {Len(input_plaintext) - 1, Len(input_plaintext)} :
          /\ len >= 0
          /\ input_ciphertext = SubSeq(encrypt_bytes(key, input_plaintext), 1, len)
    /\ known_plaintext = input_plaintext
    /\ known_ciphertext = input_ciphertext
    /\ first = None
    /\ second = None
    /\ IdleInverse
    /\ IdleSearch

\* lines 172-175
SolverEntry ==
    /\ pc = "solver_entry"
    /\ IF Len(known_plaintext) # Len(known_ciphertext)
       THEN /\ outcome' = AffineException(5, None)
            /\ pc' = "raised"
       ELSE IF Len(known_plaintext) < 2
            THEN /\ outcome' = AffineException(6, None)
                 /\ pc' = "raised"
            ELSE /\ outcome' = outcome
                 /\ pc' = "select_first"
    /\ UNCHANGED <<key, inverse_vars, solver_vars, search_vars>>

\* lines 179-180: random.randint picks the index, both lists are popped
SelectFirst ==
    /\ pc = "select_first"
    /\ \E first_eq_index \in 1..Len(known_plaintext) :
          /\ first' = [p |-> known_plaintext[first_eq_index],
                       c |-> known_ciphertext[first_eq_index]]
          /\ known_plaintext' = list_pop(known_plaintext, first_eq_index)
          /\ known_ciphertext' = list_pop(known_ciphertext, first_eq_index)
    /\ pc' = "select_second"
    /\ UNCHANGED <<outcome, key, inverse_vars, input_plaintext, input_ciphertext,
                   second, search_vars>>

\* lines 182-183
SelectSecond ==
    /\ pc = "select_second"
    /\ \E second_eq_index \in 1..Len(known_plaintext) :
          /\ second' = [p |-> known_plaintext[second_eq_index],
                        c |-> known_ciphertext[second_eq_index]]
          /\ known_plaintext' = list_pop(known_plaintext, second_eq_index)
          /\ known_ciphertext' = list_pop(known_ciphertext, second_eq_index)
    /\ pc' = "solve"
    /\ UNCHANGED <<outcome, key, inverse_vars, input_plaintext, input_ciphertext,
                   first, search_vars>>

\* lines 185-243
Solve ==
    /\ pc = "solve"
    /\ first' = order_first(first, second)
    /\ second' = order_second(first, second)
    /\ outcome' = solve_samples(first, second)
    /\ pc' = IF Returned(outcome') THEN "returned" ELSE "raised"
    /\ UNCHANGED <<key, inverse_vars, input_plaintext, input_ciphertext,
                   known_plaintext, known_ciphertext, search_vars>>

NextSolver ==
    \/ SolverEntry
    \/ SelectFirst
    \/ SelectSecond
    \/ Solve

SpecSolver == InitSolver /\ [][NextSolver]_vars

---------------------------------------------------------------------------
(* brute_force_affine.py and exhaustive_key_affine.py *)

\* the JPEG header bytes FF D8 the searches test a candidate against
SIGNATURE == <<255, 216>>

\* decrypt_affine with the parentheses of (C - b) left out
decrypt_affine_unparenthesized(m_inverse, n, b, C) == (m_inverse * C - b) % n

\* P = m^-1 . (C - b) (mod n)
decrypt_affine(m_inverse, n, b, C) == (m_inverse * (C - b)) % n

\* exhaustive_key_affine.py: gcd
RECURSIVE gcd(_, _)
gcd(a, b) ==
    IF a > b THEN gcd(b, a)
    ELSE IF a = 0 THEN b
    ELSE gcd(a, b % a)

\* ciphertext[:2]
header_of(bytes) == SubSeq(bytes, 1, IF Len(bytes) < 2 THEN Len(bytes) ELSE 2)

\* return i, j
Candidate(i, j) == Return([m_inverse |-> i, b |-> j])

\* return None, None: the sentinel pair, written as one None
NOT_FOUND == Return(None)

\* the test of one (i, j): TRUE, FALSE, or the IndexError of reading a header
\* byte that is not there (the second byte is read only when the first matches)
header_test(i, j, header) ==
    IF Len(header) < 1
    THEN IndexError
    ELSE IF decrypt_affine(i, MAX_BYTES + 1, j, header[1]) = SIGNATURE[1]
         THEN IF Len(header) < 2
              THEN IndexError
              ELSE Return(decrypt_affine(i, MAX_BYTES + 1, j, header[2]) = SIGNATURE[2])
         ELSE Return(FALSE)

\* for j in range(MAX_BYTES + 1): the loop stops at the first j, ascending,
\* whose test is not False, with return i, j or with the test's exception;
\* None when it runs to its end
inner_loop(i, header) ==
    LET stops == {j \in 0..MAX_BYTES : header_test(i, j, header) # Return(FALSE)}
    IN  IF stops = {}
        THEN None
        ELSE LET j == CHOOSE j1 \in stops : \A j2 \in stops : j1 <= j2
                 t == header_test(i, j, header)
             IN  IF Returned(t) THEN Candidate(i, j) ELSE t

\* brute_force with range(1, MAX_BYTES): i = 255 is never tried
brute_force_range_short(i) == i < MAX_BYTES

\* brute_force: for i in range(1, MAX_BYTES + 1) has an i left to run
brute_force_range(i) == i < MAX_BYTES + 1

\* exhaustive_key: for i in range(1, MAX_BYTES + 1) has an i left to run
exhaustive_key_range(i) == i < MAX_BYTES + 1

\* brute_force: one pass of for i in range(1, MAX_BYTES + 1)
brute_force_pass(i, header) == inner_loop(i, header)

\* exhaustive_key_pass testing coprimality with MAX_BYTES, not MAX_BYTES + 1
exhaustive_key_pass_wrong_modulus(i, header) ==
    IF gcd(i, MAX_BYTES) # 1 THEN None ELSE inner_loop(i, header)

\* exhaustive_key: one pass of the outer loop; an i sharing a factor with n
\* is skipped
exhaustive_key_pass(i, header) ==
    IF gcd(i, MAX_BYTES + 1) # 1 THEN None ELSE inner_loop(i, header)

---------------------------------------------------------------------------
(* The searches, one pass of the outer loop at a time *)

\* longest ciphertext
MaxCipherLen == 3

\* a plaintext that starts with the signature
jpeg_plaintext(len) == [i \in 1..len |-> IF i <= 2 THEN SIGNATURE[i] ELSE 0]

InitSearch ==
    /\ pc = "brute_force_entry"
    /\ outcome = Pending
    /\ key \in Keys
    /\ \E len \in 0..MaxCipherLen : ciphertext = encrypt_bytes(key, jpeg_plaintext(len))
    /\ loop_i = 0
    /\ bf_result = Pending
    /\ ek_result = Pending
    /\ IdleInverse
    /\ IdleSolver

\* brute_force, lines 37-39
BruteForceEntry ==
    /\ pc = "brute_force_entry"
    /\ loop_i' = 1
    /\ pc' = "brute_force_loop"
    /\ UNCHANGED <<outcome, key, inverse_vars, solver_vars, ciphertext, bf_result,
                   ek_result>>

\* brute_force, lines 39-44
BruteForceLoop ==
    /\ pc = "brute_force_loop"
    /\ brute_force_range(loop_i)
    /\ LET r == brute_force_pass(loop_i, header_of(ciphertext))
       IN  IF r = None
           THEN /\ loop_i' = loop_i + 1
                /\ UNCHANGED <<pc, bf_result>>
           ELSE /\ bf_result' = r
                /\ pc' = "exhaustive_key_entry"
                /\ UNCHANGED loop_i
    /\ UNCHANGED <<outcome, key, inverse_vars, solver_vars, ciphertext, ek_result>>

\* brute_force, line 46
BruteForceNotFound ==
    /\ pc = "brute_force_loop"
    /\ ~brute_force_range(loop_i)
    /\ bf_result' = NOT_FOUND
    /\ pc' = "exhaustive_key_entry"
    /\ UNCHANGED <<outcome, key, inverse_vars, solver_vars, ciphertext, loop_i,
                   ek_result>>

\* exhaustive_key, lines 47-49
ExhaustiveKeyEntry ==
    /\ pc = "exhaustive_key_entry"
    /\ loop_i' = 1
    /\ pc' = "exhaustive_key_loop"
    /\ UNCHANGED <<outcome, key, inverse_vars, solver_vars, ciphertext, bf_result,
                   ek_result>>

\* exhaustive_key, lines 49-59
ExhaustiveKeyLoop ==
    /\ pc = "exhaustive_key_loop"
    /\ exhaustive_key_range(loop_i)
    /\ LET r == exhaustive_key_pass(loop_i, header_of(ciphertext))
       IN  IF r = None
           THEN /\ loop_i' = loop_i + 1
                /\ UNCHANGED <<pc, ek_result>>
           ELSE /\ ek_result' = r
                /\ pc' = "done"
                /\ UNCHANGED loop_i
    /\ UNCHANGED <<outcome, key, inverse_vars, solver_vars, ciphertext, bf_result>>

\* exhaustive_key, line 61
ExhaustiveKeyNotFound ==
    /\ pc = "exhaustive_key_loop"
    /\ ~exhaustive_key_range(loop_i)
    /\ ek_result' = NOT_FOUND
    /\ pc' = "done"
    /\ UNCHANGED <<outcome, key, inverse_vars, solver_vars, ciphertext, loop_i,
                   bf_result>>

NextSearch ==
    \/ BruteForceEntry
    \/ BruteForceLoop
    \/ BruteForceNotFound
    \/ ExhaustiveKeyEntry
    \/ ExhaustiveKeyLoop
    \/ ExhaustiveKeyNotFound

SpecSearch == InitSearch /\ [][NextSearch]_vars

---------------------------------------------------------------------------
(* Every program together *)

Init == InitInverse \/ InitSolver \/ InitSearch

Next == NextInverse \/ NextSolver \/ NextSearch

Spec == Init /\ [][Next]_vars

---------------------------------------------------------------------------
(* Properties of m_inverse_affine, under SpecInverse *)

InverseFinished == pc \in {"returned", "raised"}

\* C1: for every m in [1,255] coprime with 256, m_inverse_affine(m, 256)
\* returns an x with 0 <= x < 256 and (m * x) mod 256 = 1.
C1_InverseCorrect ==
    (/\ InverseFinished
     /\ arg_n = Modulus
     /\ arg_m \in 1..MAX_BYTES
     /\ gcd(arg_m, Modulus) = 1)
    => /\ Returned(outcome)
       /\ outcome.value \in 0..(Modulus - 1)
       /\ (arg_m * outcome.value) % Modulus = 1

\* C2: for every m in [1,255] with gcd(m, 256) # 1, m_inverse_affine(m, 256)
\* raises AffineException with code 3 whose dump carries gcd(m, 256) in the
\* p field of its last step.
C2_NotCoprimeSignalled ==
    (/\ InverseFinished
     /\ arg_n = Modulus
     /\ arg_m \in 1..MAX_BYTES
     /\ gcd(arg_m, Modulus) # 1)
    => /\ outcome.kind = "AffineException"
       /\ outcome.code = 3
       /\ LastOf(outcome.dump).p = gcd(arg_m, Modulus)

\* C8: while m_inverse_affine(m, 256) backtracks, after every pass that
\* processed a step with nonzero remainder the identity satisfies
\* m.x + n.y = 1 = gcd(m, 256), its m and n being the r and p of the step the
\* next pass pops; after the last pass they are the arguments m and 256.
C8_BezoutInvariant ==
    (/\ pc = "backtrack"
     /\ arg_n = Modulus
     /\ affine_bezout_identity # None)
    => /\ gcd(arg_m, arg_n) = 1
       /\ affine_bezout_identity.m * affine_bezout_identity.x
            + affine_bezout_identity.n * affine_bezout_identity.y = 1
       /\ Len(gcd_modulo_formulas) > 0 =>
            /\ LastOf(gcd_modulo_formulas).r = affine_bezout_identity.m
            /\ LastOf(gcd_modulo_formulas).p = affine_bezout_identity.n
       /\ Len(gcd_modulo_formulas) = 0 =>
            /\ affine_bezout_identity.m = arg_m
            /\ affine_bezout_identity.n = arg_n

\* C8 witness: the loop has folded several steps and emptied the chain
C8_Witness ==
    /\ pc = "backtrack"
    /\ arg_n = Modulus
    /\ Len(gcd_modulo_formulas) = 0
    /\ affine_bezout_identity # None
    /\ affine_bezout_identity.y # 1
    /\ affine_bezout_identity.x < 0

---------------------------------------------------------------------------
(* Properties of analyze_known_plaintext, under SpecSolver *)

\* the call has ended, by return or by exception
SolverFinished == pc \in {"returned", "raised"}

\* the call ended after two samples were popped and solved
SolverSolved == SolverFinished /\ first # None /\ second # None

\* every sample is the encryption of its plaintext byte under the key
SamplesConsistent ==
    /\ key.noise = 0
    /\ Len(input_plaintext) = Len(input_ciphertext)

\* C3: for a true key (m odd, b) and two samples made with it whose
\* plaintext difference is coprime with 256, analyze_known_plaintext returns
\* the true m, an m^-1 with (m * m^-1) mod 256 = 1, and the true b.
C3_ExactRecovery ==
    (/\ SolverSolved
     /\ SamplesConsistent
     /\ gcd(first.p - second.p, Modulus) = 1)
    => /\ Returned(outcome)
       /\ outcome.value.m = key.m
       /\ (key.m * outcome.value.m_inverse) % Modulus = 1
       /\ outcome.value.b = key.b

\* C4: for two samples with plaintext difference dp in [1,255],
\* g = gcd(dp, 256) > 1 and ciphertext difference dc with dc mod g # 0,
\* analyze_known_plaintext raises AffineException with code 7.
C4_NoSolutionSignalled ==
    (/\ SolverSolved
     /\ first.p - second.p \in 1..MAX_BYTES
     /\ gcd(first.p - second.p, Modulus) > 1
     /\ (first.c - second.c) % gcd(first.p - second.p, Modulus) # 0)
    => /\ outcome.kind = "AffineException"
       /\ outcome.code = 7

\* sample i of the lists the call was given
sample_at(i) == [p |-> input_plaintext[i], c |-> input_ciphertext[i]]

\* no plaintext byte occurs twice in the list given
PlaintextsDistinct ==
    \A i, j \in 1..Len(input_plaintext) :
        i # j => input_plaintext[i] # input_plaintext[j]

\* C9: for samples all consistent with one valid key the result does not
\* depend on which two distinct indices are selected: every selection returns
\* the same (m, m^-1, b) and none fails.  Stated for lists of distinct
\* samples, the reading of "any two distinct pairs" that asks least.
C9_SelectionIndependent ==
    (/\ SolverSolved
     /\ SamplesConsistent
     /\ PlaintextsDistinct)
    => /\ Returned(outcome)
       /\ \A i, j \in 1..Len(input_plaintext) :
             i # j => solve_samples(sample_at(i), sample_at(j)) = outcome

\* C10 as stated: after every call, returning or failing, both input lists
\* are as they were given.
C10_InputsUnchanged ==
    SolverFinished =>
        /\ known_plaintext = input_plaintext
        /\ known_ciphertext = input_ciphertext

\* list without its positions i < j
without_two(list, i, j) == list_pop(list_pop(list, j), i)

\* C10 as amended: a call that fails its length checks (codes 5, 6) leaves
\* both lists as given; every other call, returning or failing, leaves each
\* list without the same two positions, the rest in order, and those two
\* positions held the two samples it worked on.
C10_InputsLoseSelected ==
    SolverFinished =>
        IF outcome.kind = "AffineException" /\ outcome.code \in {5, 6}
        THEN /\ known_plaintext = input_plaintext
             /\ known_ciphertext = input_ciphertext
        ELSE \E i, j \in 1..Len(input_plaintext) :
                /\ i < j
                /\ known_plaintext = without_two(input_plaintext, i, j)
                /\ known_ciphertext = without_two(input_ciphertext, i, j)
                /\ {first, second} = {sample_at(i), sample_at(j)}

\* C10 witness: a call that returned a key took two of three samples away
C10_Witness ==
    /\ pc = "returned"
    /\ Len(input_plaintext) = 3
    /\ Len(known_plaintext) = 1
    /\ Len(known_ciphertext) = 1
    /\ known_plaintext # SubSeq(input_plaintext, 1, 1)

---------------------------------------------------------------------------
(* Properties of brute_force and exhaustive_key, under SpecSearch *)

\* brute_force has just ended on a ciphertext of two bytes or more
BruteForceEnded == pc = "exhaustive_key_entry" /\ Len(ciphertext) >= 2

\* C5: on a ciphertext whose first two bytes encrypt FF D8 under a valid key
\* (m odd, b), brute_force returns (m_inverse, b) with
\* (m * m_inverse) mod 256 = 1 and b the true offset.
C5_BruteForceRecoversKey ==
    (BruteForceEnded /\ key.noise = 0)
    => /\ Returned(bf_result)
       /\ bf_result # NOT_FOUND
       /\ (key.m * bf_result.value.m_inverse) % Modulus = 1
       /\ bf_result.value.b = key.b

\* C5 witness: the key of the documented case, m = 3 and b = 7, is recovered
\* as (171, 7) from the header [4, 143]
C5_Witness ==
    /\ BruteForceEnded
    /\ header_of(ciphertext) = <<4, 143>>
    /\ bf_result = Candidate(171, 7)

\* the pairs (m_inverse, b) that decrypt the header to the signature
matching_pairs(header) ==
    {pair \in (1..MAX_BYTES) \X (0..MAX_BYTES) :
        /\ decrypt_affine(pair[1], Modulus, pair[2], header[1]) = 255
        /\ decrypt_affine(pair[1], Modulus, pair[2], header[2]) = 216}

\* m_inverse ascending, then b ascending
lex_leq(a, b) == a[1] < b[1] \/ (a[1] = b[1] /\ a[2] <= b[2])

\* C6: on a ciphertext of two bytes or more brute_force returns the
\* lexicographically smallest matching (m_inverse, b) of [1,255] x [0,255],
\* and the sentinel (None, None), raising nothing, when no pair matches.
C6_BruteForceSmallestPair ==
    BruteForceEnded
    => LET matches == matching_pairs(header_of(ciphertext))
       IN  IF matches = {}
           THEN bf_result = NOT_FOUND
           ELSE \E pair \in matches :
                   /\ \A other \in matches : lex_leq(pair, other)
                   /\ bf_result = Candidate(pair[1], pair[2])

\* C6 witness: the whole space was run and the sentinel returned
C6_Witness ==
    /\ BruteForceEnded
    /\ loop_i = MAX_BYTES + 1
    /\ bf_result = NOT_FOUND

\* C7: when brute_force returns a candidate with odd m_inverse,
\* exhaustive_key returns the same candidate on the same ciphertext.
C7_ExhaustiveKeyAgrees ==
    (/\ pc = "done"
     /\ Returned(bf_result)
     /\ bf_result # NOT_FOUND
     /\ bf_result.value.m_inverse % 2 = 1)
    => ek_result = bf_result

\* C7 witness: both searches ended with the same candidate, its m_inverse odd
C7_Witness ==
    /\ pc = "done"
    /\ Returned(bf_result)
    /\ bf_result # NOT_FOUND
    /\ bf_result.value.m_inverse % 2 = 1
    /\ ek_result = bf_result
    /\ ek_result.value.m_inverse > 1

=============================================================================
